---- MODULE Spec2Model ----
(***************************************************************************)
(* Model of py_api_saga.SagaAssembler (src/py_api_saga/py_api_saga.py).    *)
(*                                                                         *)
(* One saga object is constructed, operations are declared into it, and    *)
(* one run (orchestrator_execute or choreography_execute) is made.         *)
(* Python's 0-based operation index i is the 1-based index i+1 here, so    *)
(* "indices k-1 down to 0" of the source are k-1 down to 1 of the model.   *)
(***************************************************************************)
EXTENDS Integers, Sequences, FiniteSets, TLC

\* ------------------------------------------------------------------ bounds
MaxOps == 3        \* at most this many operation() calls are accepted
MaxRetry == 2      \* largest retry_attempts value passed to the constructor
MaxArgs == 3       \* operation() is called with 0..MaxArgs arguments

\* ------------------------------------------------------------------ values
\* The functions a caller declares.  Every declaration brings its own two
\* functions: the n-th accepted operation() call is given action n and, if
\* any, compensation n, and a function's __name__ tells which one it is.
ActionName(n) == [fn |-> "action", of |-> n]
CompName(n) == [fn |-> "compensation", of |-> n]
NoName == [fn |-> "-", of |-> 0]

\* Values a caller can pass as retry_attempts: None, ints, floats, strings.
\* A float is modelled by its integral value v (2.0 is [t |-> "float", v |-> 2]).
RetryArgs ==
    {[t |-> "none", v |-> 0], [t |-> "str", v |-> 0], [t |-> "str", v |-> 1]}
      \cup {[t |-> "int", v |-> n] : n \in -1 .. MaxRetry}
      \cup {[t |-> "float", v |-> n] : n \in {0, MaxRetry}}

\* Python truthiness of a retry_attempts argument: None, 0, 0.0 and "" are
\* falsy (a string is modelled by its length v).
Truthy(a) == a.t # "none" /\ a.v # 0

\* Values a caller can pass as one argument of operation().
\*   func            a plain function
\*   seq_func        a sequence whose first element is a plain function
\*   seq_nonfunc     a sequence whose first element is not a function
\*   seq_empty       an empty sequence
\*   nonfunc         a non-iterable, non-callable value
\*   callable_other  a non-iterable callable that is no types.FunctionType
OpArgs(names) ==
    {[kind |-> k, name |-> n] : k \in {"func", "seq_func"}, n \in names}
      \cup {[kind |-> k, name |-> NoName] :
              k \in {"seq_nonfunc", "seq_empty", "nonfunc", "callable_other"}}

Iterable(arg) == arg.kind \in {"seq_func", "seq_nonfunc", "seq_empty"}

\* Exception objects met during a run.  NoError is Python's None in the
\* `error` local of __retry_operation; TypeError is what the interpreter
\* raises for range(<float>) and for `raise None`.  A user function that
\* raises at its n-th invocation raises its own error object:
\* pos is the function's position in the operation's tuple (1 action,
\* 2 compensation).
NoError == [type |-> "None", op |-> 0, pos |-> 0, n |-> 0]
TypeError == [type |-> "TypeError", op |-> 0, pos |-> 0, n |-> 0]
UserError(i, p, n) == [type |-> "UserError", op |-> i, pos |-> p, n |-> n]

\* What the n-th invocation of the function at position p of operation i
\* returns.
UserResult(i, p, n) == [op |-> i, pos |-> p, n |-> n]

\* str(error), as stored in the compensation error lists.
Str(e) == [str |-> e]

\* `x or None` for a list x: None when the list is empty.
None == [isNone |-> TRUE, list |-> <<>>]
OrNone(x) == IF x = <<>> THEN None ELSE [isNone |-> FALSE, list |-> x]

VARIABLES
    pc,                 \* where the caller is
    retry_attempts,     \* self.__retry_attempts
    operations,         \* self.__operations: sequence of 1- or 2-tuples of names
    saga_results,       \* self.__saga_results, the accumulator
    raised,             \* the exception the last call raised (NoRaise if none)
    last_call,          \* history: the arguments of the last operation() call and
                        \* the registry it found
    mode,               \* which run was requested: "", "orchestrator", "choreography"
    retry,              \* per operation: the activation of __retry_operation
    response,           \* orchestrator_execute: response
    operation_index,    \* orchestrator_execute: operation_index
    compensation_index, \* __execute_orchestrator_compensation: compensation_index
    compensation_success_result,
    compensation_exceptions,
    thread,             \* position of the `for thread in ...` loop over submitted threads
    success,            \* __prepare_thread_result: success
    success_index,      \* __prepare_thread_result: success_index
    errors,             \* __prepare_thread_result: errors
    compensation_threads, \* __execute_choreography_compensation: the submitted threads
    outcome,            \* what the run returned or raised
    invoked,            \* history: invoked[i][p] counts the invocations of the
                        \* function at position p of operation i's tuple
    calls               \* history: the invocations made on the one thread of
                        \* orchestrator_execute, in order

vars == <<pc, retry_attempts, operations, saga_results, raised, last_call, mode, retry,
          response, operation_index, compensation_index,
          compensation_success_result, compensation_exceptions, thread,
          success, success_index, errors, compensation_threads, outcome, invoked, calls>>

runVars == <<mode, retry, response, operation_index, compensation_index,
             compensation_success_result, compensation_exceptions, thread,
             success, success_index, errors, compensation_threads, outcome, invoked, calls>>

\* An exception raised by the constructor, operation() or the availability
\* check of a run: its class, which message it carries and, for a rejected
\* operation() argument, the position of that argument.
NoRaise == [type |-> "", msg |-> "", arg |-> 0]
Raise(type, msg, arg) == [type |-> type, msg |-> msg, arg |-> arg]

NoOutcome == [kind |-> "none"]

NoCall == [made |-> FALSE, args |-> <<>>, before |-> <<>>]

Init ==
    /\ pc = "new"
    /\ retry_attempts = [t |-> "none", v |-> 0]
    /\ operations = <<>>
    /\ saga_results = <<>>
    /\ raised = NoRaise
    /\ last_call = NoCall
    /\ mode = ""
    /\ retry = <<>>
    /\ response = <<>>
    /\ operation_index = 0
    /\ compensation_index = 0
    /\ compensation_success_result = <<>>
    /\ compensation_exceptions = <<>>
    /\ thread = 0
    /\ success = <<>>
    /\ success_index = <<>>
    /\ errors = <<>>
    /\ compensation_threads = <<>>
    /\ outcome = NoOutcome
    /\ invoked = <<>>
    /\ calls = <<>>

\* ------------------------------------------------------------ construction
\* SagaAssembler.__init__: a truthy value that is neither int nor float is
\* rejected; a falsy value (None, 0, 0.0, "") becomes 1; anything else is kept.
InitRejects(a) == Truthy(a) /\ ~(a.t \in {"int", "float"})

InitRetryAttempts(a) == IF Truthy(a) THEN a ELSE [t |-> "int", v |-> 1]

SagaInit(a) ==
    /\ pc = "new"
    /\ IF InitRejects(a)
         THEN /\ pc' = "ctor_raised"
              /\ raised' = Raise("SagaException", "retry_attempts type", 0)
              /\ UNCHANGED retry_attempts
         ELSE /\ pc' = "declare"
              /\ retry_attempts' = InitRetryAttempts(a)
              /\ UNCHANGED raised
    /\ UNCHANGED <<operations, saga_results, last_call>>
    /\ UNCHANGED runVars

\* ------------------------------------------------------------- declaration
\* __check_operation on the argument at position p: the name of the function
\* the returned partial binds, or the exception raised.  An empty sequence
\* fails at arg[0] with IndexError.
CheckOperation(arg, p) ==
    IF Iterable(arg)
      THEN IF arg.kind = "seq_empty"
             THEN [ok |-> FALSE, exc |-> Raise("IndexError", "index", p), name |-> NoName]
             ELSE IF arg.kind = "seq_func"
                    THEN [ok |-> TRUE, exc |-> NoRaise, name |-> arg.name]
                    ELSE [ok |-> FALSE,
                          exc |-> Raise("SagaException", "add function", p),
                          name |-> NoName]
      ELSE IF arg.kind = "func"
             THEN [ok |-> TRUE, exc |-> NoRaise, name |-> arg.name]
             ELSE [ok |-> FALSE,
                   exc |-> Raise("SagaException", "add function", p),
                   name |-> NoName]

\* The list comprehension of operation(): the arguments are checked left to
\* right from position p on, and the first failing check raises.
RECURSIVE FirstFailure(_, _)
FirstFailure(args, p) ==
    IF p > Len(args) THEN NoRaise
    ELSE IF ~CheckOperation(args[p], p).ok THEN CheckOperation(args[p], p).exc
    ELSE FirstFailure(args, p + 1)

\* SagaAssembler.operation: the exception it raises (NoRaise if none).
OperationRaises(args) ==
    IF Len(args) = 0 THEN Raise("SagaException", "empty", 0)
    ELSE IF Len(args) > 2 THEN Raise("SagaException", "only two", 0)
    ELSE FirstFailure(args, 1)

\* Mutant: the tuple is appended before its elements are checked.
OperationRegistry_Unchecked(ops, args) ==
    IF Len(args) = 0 \/ Len(args) > 2 THEN ops
    ELSE Append(ops, [j \in 1 .. Len(args) |-> CheckOperation(args[j], j).name])

\* SagaAssembler.operation: the registry it leaves.  The tuple is appended
\* only after every argument has been checked.
OperationRegistry(ops, args) ==
    IF OperationRaises(args) # NoRaise THEN ops
    ELSE Append(ops, [j \in 1 .. Len(args) |-> CheckOperation(args[j], j).name])

\* The argument lists tried for the n-th declaration, of 0 .. MaxArgs
\* arguments: the first argument is action n or any invalid value, the
\* second compensation n or any invalid value, the ones after it (always too
\* many) a function or not.
ExtraArgs(n) == {[kind |-> "func", name |-> CompName(n)],
                 [kind |-> "nonfunc", name |-> NoName]}

ArgAt(n, p) ==
    IF p = 1 THEN OpArgs({ActionName(n)})
    ELSE IF p = 2 THEN OpArgs({CompName(n)})
    ELSE ExtraArgs(n)

RECURSIVE ArgListsOfLen(_, _)
ArgListsOfLen(n, m) ==
    IF m = 0 THEN {<<>>}
    ELSE {Append(args, a) : args \in ArgListsOfLen(n, m - 1), a \in ArgAt(n, m)}

ArgLists(n) == UNION {ArgListsOfLen(n, m) : m \in 0 .. MaxArgs}

Operation(args) ==
    /\ pc = "declare"
    /\ Len(operations) < MaxOps
    /\ operations' = OperationRegistry(operations, args)
    /\ raised' = OperationRaises(args)
    /\ last_call' = [made |-> TRUE, args |-> args, before |-> operations]
    /\ UNCHANGED <<pc, retry_attempts, saga_results>>
    /\ UNCHANGED runVars

\* ------------------------------------------------------------ retry executor
\* len(range(retry_attempts)) for an int; range() of a float raises TypeError.
RangeLen(r) == IF r.v > 0 THEN r.v ELSE 0

\* The activation of __retry_operation for one operation: how many loop
\* iterations have run, the `error` local, and how the call ended.
IdleRetry == [status |-> "idle", attempt |-> 0, error |-> NoError,
              response |-> UserResult(0, 0, 0)]

\* Does the next step of the activation invoke the action?  Not when range()
\* raises, and not when the loop has no iteration left.
Invokes(a, r) == r.t = "int" /\ a.attempt < RangeLen(r)

\* Mutant: the first error is retained instead of the latest.
RetryOperation_FirstError(a, r, i, ok) ==
    IF r.t # "int"
      THEN [a EXCEPT !.status = "raised", !.error = TypeError]
    ELSE IF a.attempt >= RangeLen(r)
      THEN [a EXCEPT !.status = "raised",
                     !.error = IF a.error = NoError THEN TypeError ELSE a.error]
    ELSE IF ok
      THEN [a EXCEPT !.status = "returned", !.attempt = a.attempt + 1,
                     !.response = UserResult(i, 1, a.attempt + 1)]
    ELSE [a EXCEPT !.status = IF a.attempt + 1 = RangeLen(r)
                                THEN "raised" ELSE "running",
                   !.attempt = a.attempt + 1,
                   !.error = IF a.error = NoError
                               THEN UserError(i, 1, a.attempt + 1) ELSE a.error]

\* Mutant: the error of an exhausted loop is swallowed and the call returns.
RetryOperation_Swallow(a, r, i, ok) ==
    IF r.t # "int"
      THEN [a EXCEPT !.status = "raised", !.error = TypeError]
    ELSE IF a.attempt >= RangeLen(r)
      THEN [a EXCEPT !.status = "raised",
                     !.error = IF a.error = NoError THEN TypeError ELSE a.error]
    ELSE IF ok
      THEN [a EXCEPT !.status = "returned", !.attempt = a.attempt + 1,
                     !.response = UserResult(i, 1, a.attempt + 1)]
    ELSE [a EXCEPT !.status = IF a.attempt + 1 = RangeLen(r)
                                THEN "returned" ELSE "running",
                   !.attempt = a.attempt + 1,
                   !.error = UserError(i, 1, a.attempt + 1)]

\* One step of __retry_operation for operation i: range() raising, or the
\* loop's else clause `raise error` (a TypeError when error is None), or one
\* iteration, in which the action returns (ok) or raises.  A raising
\* iteration that was the last one goes on to `raise error`.
RetryOperation(a, r, i, ok) ==
    IF r.t # "int"
      THEN [a EXCEPT !.status = "raised", !.error = TypeError]
    ELSE IF a.attempt >= RangeLen(r)
      THEN [a EXCEPT !.status = "raised",
                     !.error = IF a.error = NoError THEN TypeError ELSE a.error]
    ELSE IF ok
      THEN [a EXCEPT !.status = "returned", !.attempt = a.attempt + 1,
                     !.response = UserResult(i, 1, a.attempt + 1)]
    ELSE [a EXCEPT !.status = IF a.attempt + 1 = RangeLen(r)
                                THEN "raised" ELSE "running",
                   !.attempt = a.attempt + 1,
                   !.error = UserError(i, 1, a.attempt + 1)]

\* Mutant: every invocation leaves an entry, the failed ones too.
RetryAccumulator_Always(acc, a, r, i, ok) ==
    IF Invokes(a, r) THEN Append(acc, UserResult(i, 1, a.attempt + 1)) ELSE acc

\* self.__saga_results after that step: the response is appended only when
\* the action was invoked and returned.
RetryAccumulator(acc, a, r, i, ok) ==
    IF Invokes(a, r) /\ ok THEN Append(acc, UserResult(i, 1, a.attempt + 1))
    ELSE acc

\* The history entry of one invocation: which function (operation, position
\* in its tuple), from where, and whether it returned.
Call(i, p, from, ok) == [op |-> i, pos |-> p, from |-> from, ok |-> ok]

RetryCalls(log, a, r, i, ok) ==
    IF Invokes(a, r) THEN Append(log, Call(i, 1, "retry", ok)) ELSE log

\* The invocation counts after one more invocation of position p of operation i.
Count(inv, i, p) == [inv EXCEPT ![i][p] = @ + 1]

RetryInvoked(inv, a, r, i) == IF Invokes(a, r) THEN Count(inv, i, 1) ELSE inv

\* Mutant: a compensation's error masks the action's.
SagaException_Masked(error, name, results, exceptions) ==
    [kind |-> "SagaException",
     operation_error |-> IF exceptions # <<>> THEN exceptions[1].str ELSE error,
     operation_name |-> name,
     compensation_success_result |-> OrNone(results),
     compensation_errors |-> OrNone(exceptions)]

\* The SagaException a failed run raises.
SagaException(error, name, results, exceptions) ==
    [kind |-> "SagaException", operation_error |-> error, operation_name |-> name,
     compensation_success_result |-> OrNone(results),
     compensation_errors |-> OrNone(exceptions)]

Return(value) == [kind |-> "return", value |-> value]

\* ------------------------------------------------------------ orchestrator
\* __check_available_operations raises when nothing was declared; the saga
\* object is left as it was.
Unavailable == Raise("SagaException", "set operation first", 0)

\* Mutant: the availability check never raises.
CheckAvailableOperations_Never(ops) == FALSE

\* __check_available_operations: does it raise?  `not self.__operations`.
CheckAvailableOperations(ops) == ops = <<>>

OrchestratorExecute ==
    /\ pc = "declare"
    /\ IF CheckAvailableOperations(operations)
         THEN /\ raised' = Unavailable
              /\ UNCHANGED <<pc, mode, retry, operation_index, response, invoked>>
         ELSE /\ raised' = NoRaise
              /\ pc' = "orchestrator"
              /\ mode' = "orchestrator"
              /\ retry' = [i \in 1 .. Len(operations) |->
                             IF i = 1 THEN [IdleRetry EXCEPT !.status = "running"]
                             ELSE IdleRetry]
              /\ operation_index' = 1
              /\ response' = <<>>
              /\ invoked' = [i \in 1 .. Len(operations) |-> <<0, 0>>]
    /\ last_call' = NoCall
    /\ UNCHANGED <<retry_attempts, operations, saga_results, compensation_index,
                   compensation_success_result, compensation_exceptions, thread,
                   success, success_index, errors, compensation_threads,
                   outcome, calls>>

\* Mutant: the sweep starts at the failed operation itself.
SweepStart_AtFailed(k) == k

\* range(last_operation_index - 1, -1, -1): where the sweep starts.
SweepStart(k) == k - 1

\* Which element of an operation's tuple `[-1]` is: its last one.
Last(op) == Len(op)

\* The condition guarding the invocation in the sweep: len(operation) is
\* truthy, that is non-zero.
SweepInvokes(op) == Len(op) # 0

\* One step of the loop of orchestrator_execute: a step of the retry
\* executor on the current operation and what the loop does with its end.
\* A returned response is appended and the loop moves on (returning the
\* responses after the last operation); a raised error starts
\* __execute_orchestrator_compensation(operation_index).
OrchestratorStep(ok) ==
    /\ pc = "orchestrator"
    /\ LET i == operation_index
           a == RetryOperation(retry[i], retry_attempts, i, ok)
       IN /\ saga_results' = RetryAccumulator(saga_results, retry[i], retry_attempts, i, ok)
          /\ calls' = RetryCalls(calls, retry[i], retry_attempts, i, ok)
          /\ invoked' = RetryInvoked(invoked, retry[i], retry_attempts, i)
          /\ IF a.status = "returned"
               THEN /\ response' = Append(response, a.response)
                    /\ operation_index' = i + 1
                    /\ UNCHANGED compensation_index
                    /\ IF i + 1 > Len(operations)
                         THEN /\ pc' = "returned"
                              /\ outcome' = Return(response')
                              /\ retry' = [retry EXCEPT ![i] = a]
                         ELSE /\ retry' = [retry EXCEPT ![i] = a,
                                              ![i + 1].status = "running"]
                              /\ UNCHANGED <<pc, outcome>>
             ELSE IF a.status = "raised"
               THEN /\ pc' = "orchestrator_compensation"
                    /\ compensation_index' = SweepStart(i)
                    /\ retry' = [retry EXCEPT ![i] = a]
                    /\ UNCHANGED <<response, operation_index, outcome>>
             ELSE /\ retry' = [retry EXCEPT ![i] = a]
                  /\ UNCHANGED <<pc, response, operation_index,
                                 compensation_index, outcome>>
    /\ UNCHANGED <<retry_attempts, operations, raised, last_call, mode,
                   compensation_success_result, compensation_exceptions, thread,
                   success, success_index, errors, compensation_threads>>

\* One iteration of the loop of __execute_orchestrator_compensation: the
\* last element of the operation's tuple is invoked directly (not through
\* the retry executor); its result or its stringified error is collected.
OrchestratorCompensate(ok) ==
    /\ pc = "orchestrator_compensation"
    /\ compensation_index >= 1
    /\ LET j == compensation_index
           p == Last(operations[j])
           n == invoked[j][p] + 1
       IN IF SweepInvokes(operations[j])
            THEN /\ calls' = Append(calls, Call(j, p, "compensation", ok))
                 /\ invoked' = Count(invoked, j, p)
                 /\ IF ok
                      THEN /\ compensation_success_result' =
                                Append(compensation_success_result, UserResult(j, p, n))
                           /\ UNCHANGED compensation_exceptions
                      ELSE /\ compensation_exceptions' =
                                Append(compensation_exceptions, Str(UserError(j, p, n)))
                           /\ UNCHANGED compensation_success_result
            ELSE UNCHANGED <<calls, invoked, compensation_success_result,
                             compensation_exceptions>>
    /\ compensation_index' = compensation_index - 1
    /\ UNCHANGED <<pc, retry_attempts, operations, saga_results, raised, last_call, mode,
                   retry, response, operation_index, thread, success,
                   success_index, errors, compensation_threads, outcome>>

\* The sweep is over: orchestrator_execute raises the SagaException.
OrchestratorRaise ==
    /\ pc = "orchestrator_compensation"
    /\ compensation_index < 1
    /\ pc' = "raised"
    /\ outcome' = SagaException(retry[operation_index].error,
                                operations[operation_index][1],
                                compensation_success_result,
                                compensation_exceptions)
    /\ UNCHANGED <<retry_attempts, operations, saga_results, raised, last_call, mode, retry,
                   response, operation_index, compensation_index,
                   compensation_success_result, compensation_exceptions, thread,
                   success, success_index, errors, compensation_threads,
                   invoked, calls>>

\* ------------------------------------------------------------ choreography
\* choreography_execute up to the submission of the action threads: the
\* availability check, then one thread per operation, each running
\* __retry_operation, in a pool of len(operations) workers (so every thread
\* can run at once).
ChoreographyExecute ==
    /\ pc = "declare"
    /\ IF CheckAvailableOperations(operations)
         THEN /\ raised' = Unavailable
              /\ UNCHANGED <<pc, mode, retry, thread, success, success_index,
                             errors, invoked>>
         ELSE /\ raised' = NoRaise
              /\ pc' = "choreography"
              /\ mode' = "choreography"
              /\ retry' = [i \in 1 .. Len(operations) |->
                             [IdleRetry EXCEPT !.status = "running"]]
              /\ thread' = 1
              /\ success' = <<>>
              /\ success_index' = <<>>
              /\ errors' = <<>>
              /\ invoked' = [i \in 1 .. Len(operations) |-> <<0, 0>>]
    /\ last_call' = NoCall
    /\ UNCHANGED <<retry_attempts, operations, saga_results, response,
                   operation_index, compensation_index,
                   compensation_success_result, compensation_exceptions,
                   compensation_threads, outcome, calls>>

\* One step of the retry executor in the thread of operation i.
ActionThread(i, ok) ==
    /\ pc = "choreography"
    /\ i \in 1 .. Len(operations)
    /\ retry[i].status = "running"
    /\ retry' = [retry EXCEPT ![i] = RetryOperation(retry[i], retry_attempts, i, ok)]
    /\ saga_results' = RetryAccumulator(saga_results, retry[i], retry_attempts, i, ok)
    /\ invoked' = RetryInvoked(invoked, retry[i], retry_attempts, i)
    /\ UNCHANGED <<calls, pc, retry_attempts, operations, raised, last_call, mode, response,
                   operation_index, compensation_index,
                   compensation_success_result, compensation_exceptions, thread,
                   success, success_index, errors, compensation_threads, outcome>>

\* The entry of `errors` for a failed thread.
FailedResult(i, name, error) ==
    [function_index |-> i, function_name |-> name, error |-> error]

\* Mutant: result() returns only for a thread that returned, and waits
\* for ever on one that raised.
ResultReady_OnlyReturned(a) == a.status = "returned"

\* thread.get("function").result() blocks until the thread has ended.
ResultReady(a) == a.status \in {"returned", "raised"}

\* Mutant: the loop is left at the first error.
PrepareDone_OnError(i, n, errs) == i = n \/ errs # <<>>

\* The loop of __prepare_thread_result is over after the last of the n
\* threads, whatever errors were filed.
PrepareDone(i, n, errs) == i = n

\* Mutant: the last failure is reported.
ReportedFailure_Last(failed_results) == failed_results[Len(failed_results)]

\* operation_error.failed_results[0]: the failure choreography_execute reports.
ReportedFailure(failed_results) == failed_results[1]

\* Mutant: the newest result is put first.
PrepareSuccess_Front(done, result) == <<result>> \o done

\* success.append(...) of __prepare_thread_result.
PrepareSuccess(done, result) == Append(done, result)

\* Mutant: a compensation is submitted for every 2-tuple operation, succeeded
\* or not.
SubmitCompensations_All(ops, idx) ==
    LET RECURSIVE From(_)
        From(j) == IF j > Len(ops) THEN <<>>
                   ELSE IF Len(ops[j]) = 2
                     THEN <<[function_index |-> j, status |-> "running"]>> \o From(j + 1)
                   ELSE From(j + 1)
    IN From(1)

\* The list comprehension of __execute_choreography_compensation: one thread
\* per succeeded index whose operation is a 2-tuple, in the order of
\* success_index.
RECURSIVE SubmitCompensations(_, _)
SubmitCompensations(ops, idx) ==
    IF idx = <<>> THEN <<>>
    ELSE IF Len(ops[Head(idx)]) = 2
      THEN <<[function_index |-> Head(idx), status |-> "running"]>>
             \o SubmitCompensations(ops, Tail(idx))
    ELSE SubmitCompensations(ops, Tail(idx))

\* One iteration of the loop of __prepare_thread_result: result() blocks
\* until the thread has ended, then its result or its error is filed.  After
\* the last thread the function returns `success`, which the run returns, or
\* raises __SagaThreadException, on which the run submits the compensations.
PrepareThreadResult ==
    /\ pc = "choreography"
    /\ thread <= Len(operations)
    /\ ResultReady(retry[thread])
    /\ LET i == thread
           a == retry[i]
       IN /\ IF a.status = "returned"
               THEN /\ success' = PrepareSuccess(success, a.response)
                    /\ success_index' = Append(success_index, i)
                    /\ UNCHANGED errors
               ELSE /\ errors' = Append(errors,
                                        FailedResult(i, operations[i][1], a.error))
                    /\ UNCHANGED <<success, success_index>>
          /\ thread' = IF PrepareDone(i, Len(operations), errors') /\ errors' # <<>>
                         THEN 1 ELSE i + 1
          /\ IF ~PrepareDone(i, Len(operations), errors')
               THEN UNCHANGED <<pc, outcome, compensation_threads>>
             ELSE IF errors' = <<>>
               THEN /\ pc' = "returned"
                    /\ outcome' = Return(success')
                    /\ UNCHANGED compensation_threads
             ELSE /\ pc' = "choreography_compensation"
                  /\ compensation_threads' =
                       SubmitCompensations(operations, success_index')
                  /\ UNCHANGED outcome
    /\ UNCHANGED <<retry_attempts, operations, saga_results, raised, last_call, mode, retry,
                   response, operation_index, compensation_index,
                   compensation_success_result, compensation_exceptions,
                   invoked, calls>>

\* A submitted compensation runs in its thread: the last element of the
\* operation's tuple is invoked once.
CompensationThread(q, ok) ==
    /\ pc = "choreography_compensation"
    /\ q \in 1 .. Len(compensation_threads)
    /\ compensation_threads[q].status = "running"
    /\ LET j == compensation_threads[q].function_index
       IN invoked' = Count(invoked, j, Last(operations[j]))
    /\ compensation_threads' =
         [compensation_threads EXCEPT ![q].status = IF ok THEN "returned" ELSE "raised"]
    /\ UNCHANGED <<pc, retry_attempts, operations, saga_results, raised, last_call, mode,
                   retry, response, operation_index, compensation_index,
                   compensation_success_result, compensation_exceptions, thread,
                   success, success_index, errors, outcome, calls>>

\* One iteration of the collecting loop of
\* __execute_choreography_compensation: result() blocks until the thread has
\* ended, then its result or its stringified error is collected.
CollectCompensation ==
    /\ pc = "choreography_compensation"
    /\ thread <= Len(compensation_threads)
    /\ ResultReady(compensation_threads[thread])
    /\ LET j == compensation_threads[thread].function_index
           p == Last(operations[j])
       IN IF compensation_threads[thread].status = "returned"
            THEN /\ compensation_success_result' =
                      Append(compensation_success_result, UserResult(j, p, 1))
                 /\ UNCHANGED compensation_exceptions
            ELSE /\ compensation_exceptions' =
                      Append(compensation_exceptions, Str(UserError(j, p, 1)))
                 /\ UNCHANGED compensation_success_result
    /\ thread' = thread + 1
    /\ UNCHANGED <<pc, retry_attempts, operations, saga_results, raised, last_call, mode,
                   retry, response, operation_index, compensation_index, success,
                   success_index, errors, compensation_threads, outcome,
                   invoked, calls>>

\* Every compensation thread is collected: choreography_execute raises the
\* SagaException, with the first entry of failed_results.
ChoreographyRaise ==
    /\ pc = "choreography_compensation"
    /\ thread > Len(compensation_threads)
    /\ pc' = "raised"
    /\ outcome' = SagaException(ReportedFailure(errors).error,
                                ReportedFailure(errors).function_name,
                                compensation_success_result,
                                compensation_exceptions)
    /\ UNCHANGED <<retry_attempts, operations, saga_results, raised, last_call, mode, retry,
                   response, operation_index, compensation_index,
                   compensation_success_result, compensation_exceptions, thread,
                   success, success_index, errors, compensation_threads,
                   invoked, calls>>

Next ==
    \/ \E a \in RetryArgs : SagaInit(a)
    \/ /\ pc = "declare"
       /\ \E args \in ArgLists(Len(operations) + 1) : Operation(args)
    \/ OrchestratorExecute
    \/ \E ok \in BOOLEAN : OrchestratorStep(ok)
    \/ \E ok \in BOOLEAN : OrchestratorCompensate(ok)
    \/ OrchestratorRaise
    \/ ChoreographyExecute
    \/ \E i \in 1 .. MaxOps, ok \in BOOLEAN : ActionThread(i, ok)
    \/ PrepareThreadResult
    \/ \E q \in 1 .. MaxOps, ok \in BOOLEAN : CompensationThread(q, ok)
    \/ CollectCompensation
    \/ ChoreographyRaise

Spec == Init /\ [][Next]_vars

\* The steps of a run.  Every invocation of a user function is assumed to
\* return or raise, and every submitted thread gets a worker (the pools have
\* len(operations) workers), so a run that can take a step takes one.
RunStep ==
    \/ \E ok \in BOOLEAN : OrchestratorStep(ok)
    \/ \E ok \in BOOLEAN : OrchestratorCompensate(ok)
    \/ OrchestratorRaise
    \/ \E i \in 1 .. MaxOps, ok \in BOOLEAN : ActionThread(i, ok)
    \/ PrepareThreadResult
    \/ \E q \in 1 .. MaxOps, ok \in BOOLEAN : CompensationThread(q, ok)
    \/ CollectCompensation
    \/ ChoreographyRaise

FairSpec == Spec /\ WF_vars(RunStep)

\* ------------------------------------------------------------------ claims
N == Len(operations)
Ops == 1 .. N
Started == mode # ""
Ended == pc \in {"returned", "raised"}
Succeeded(i) == retry[i].status = "returned"
Failed(i) == retry[i].status = "raised"
HasCompensation(i) == Len(operations[i]) = 2

\* C1: when every action of a run has succeeded (possibly after retries),
\* the run, in either mode, returns exactly N outputs, the i-th being the
\* result of the successful invocation of the i-th declared action, whatever
\* the order in which the actions completed.
C1_OutputsInDeclarationOrder ==
    (Started /\ Ended /\ \A i \in Ops : Succeeded(i)) =>
        /\ outcome.kind = "return"
        /\ Len(outcome.value) = N
        /\ \A i \in Ops : outcome.value[i] = UserResult(i, 1, retry[i].attempt)

\* A choreography run of three operations returned although the last
\* declared action completed first and the first one needed a retry.
C1_Witness ==
    /\ mode = "choreography" /\ pc = "returned" /\ N = 3
    /\ saga_results[1].op = 3
    /\ retry[1].attempt = 2
    /\ Len(outcome.value) = 3

\* The invocations made by the sweep whose function is a declared
\* compensation, in order, as operation indices.
RECURSIVE CompensationsInvoked(_)
CompensationsInvoked(log) ==
    IF log = <<>> THEN <<>>
    ELSE IF Head(log).from = "compensation" /\ Head(log).pos = 2
      THEN <<Head(log).op>> \o CompensationsInvoked(Tail(log))
    ELSE CompensationsInvoked(Tail(log))

\* The indices below k that declare a compensation, from k-1 downwards.
RECURSIVE CompensationsBelow(_)
CompensationsBelow(k) ==
    IF k <= 1 THEN <<>>
    ELSE IF HasCompensation(k - 1) THEN <<k - 1>> \o CompensationsBelow(k - 1)
    ELSE CompensationsBelow(k - 1)

\* C2: in orchestrator_execute, once the action at index k has failed, the
\* compensations invoked so far are those declared at k-1, k-2, ... in that
\* order without gap or repetition, never the one of k or of a later
\* operation, and when the run raises they are all of those below k.
C2_ReverseCompensation ==
    mode = "orchestrator" =>
        LET done == CompensationsInvoked(calls)
            all == CompensationsBelow(operation_index)
        IN /\ Len(done) <= Len(all)
           /\ done = SubSeq(all, 1, Len(done))
           /\ pc = "orchestrator" => done = <<>>
           /\ pc = "raised" => done = all
           /\ \A i \in Ops : invoked[i][2] <= 1

\* An orchestrator run failed at the third operation and compensated the
\* second, then the first.
C2_Witness ==
    /\ mode = "orchestrator" /\ pc = "raised" /\ operation_index = 3
    /\ CompensationsInvoked(calls) = <<2, 1>>

\* C3: in orchestrator_execute every invocation of the action at index i
\* comes after a successful invocation of the action of every index below i,
\* and once the run has failed at index k no action above k was invoked.
C3_SequentialActions ==
    mode = "orchestrator" =>
        /\ \A x \in 1 .. Len(calls) :
              calls[x].pos = 1 =>
                \A j \in 1 .. calls[x].op - 1 :
                    \E y \in 1 .. x - 1 :
                        /\ calls[y].op = j /\ calls[y].pos = 1
                        /\ calls[y].from = "retry" /\ calls[y].ok
        /\ pc \in {"orchestrator_compensation", "raised"} =>
              \A j \in Ops : j > operation_index => invoked[j][1] = 0

\* An orchestrator run of three operations failed at the second one after
\* retrying it: the first action had run, the third never did.
C3_Witness ==
    /\ mode = "orchestrator" /\ pc = "raised" /\ N = 3 /\ operation_index = 2
    /\ invoked[1][1] >= 1 /\ invoked[2][1] = 2 /\ invoked[3][1] = 0

\* C4: in both modes a compensation has been invoked only if the action of
\* its operation succeeded and the action of another operation finally
\* failed; in particular the compensation of a failed operation is never
\* invoked, however many operations failed.
C4_CompensationOnlyAfterSuccess ==
    Started =>
        \A i \in Ops :
            invoked[i][2] > 0 =>
                /\ Succeeded(i)
                /\ \E k \in Ops : k # i /\ Failed(k)

\* A choreography run with two failed operations, both declaring a
\* compensation, compensated the one operation that succeeded.
C4_Witness ==
    /\ mode = "choreography" /\ pc = "raised" /\ N = 3
    /\ Failed(1) /\ Failed(3) /\ Succeeded(2)
    /\ \A i \in Ops : HasCompensation(i)
    /\ invoked[2][2] = 1 /\ invoked[1][2] = 0 /\ invoked[3][2] = 0

\* The configured retry attempts are a count R >= 1.
CountedRetries == retry_attempts.t = "int" /\ retry_attempts.v >= 1
R == retry_attempts.v

\* How many entries of a list satisfy: made by position p of operation i.
EntriesOf(list, i, p) ==
    Cardinality({x \in 1 .. Len(list) : list[x].op = i /\ list[x].pos = p})

ErrorEntriesOf(list, i) ==
    Cardinality({x \in 1 .. Len(list) : list[x].str.op = i})

\* C5: with retry attempts R no action is invoked more than R times in a
\* run of either mode, and an operation declared without a compensation
\* contributes nothing to the compensation outputs or errors.
C5_ActionInvokedAtMostR ==
    (Started /\ CountedRetries) =>
        \A i \in Ops :
            /\ invoked[i][1] <= R
            /\ ~HasCompensation(i) =>
                  /\ EntriesOf(compensation_success_result, i, 1) = 0
                  /\ ErrorEntriesOf(compensation_exceptions, i) = 0

\* C6: with retry attempts R >= 1, an action that succeeded on attempt R
\* (having raised on the attempts before) has been invoked exactly R times,
\* its output is the result of attempt R, the accumulator holds that result
\* once and nothing else of this action, and the failure a run raises is
\* not this action's.
C6_SuccessOnLastAttempt ==
    (Started /\ CountedRetries) =>
        \A i \in Ops :
            (Succeeded(i) /\ retry[i].attempt = R) =>
                /\ invoked[i][1] = R
                /\ retry[i].response = UserResult(i, 1, R)
                /\ EntriesOf(saga_results, i, 1) = 1
                /\ \E x \in 1 .. Len(saga_results) :
                      saga_results[x] = UserResult(i, 1, R)
                /\ pc = "raised" => outcome.operation_error.op # i

\* The retry-executor invocations of operation i's action are consecutive
\* in the orchestrator's sequence of invocations.
Uninterrupted(i) ==
    \A x, y \in 1 .. Len(calls) :
        (x < y /\ calls[x].op = i /\ calls[y].op = i
           /\ calls[x].from = "retry" /\ calls[y].from = "retry") =>
            \A z \in x .. y : calls[z].op = i /\ calls[z].from = "retry"

\* The SagaException of the run reports operation i's final error.
Reports(i) ==
    /\ outcome.kind = "SagaException"
    /\ outcome.operation_error = UserError(i, 1, R)
    /\ outcome.operation_name = operations[i][1]

\* C7 as claimed: with retry attempts R >= 1, every action that raised on
\* all R attempts was invoked exactly R times, uninterrupted, and the ended
\* run raised a SagaException carrying its R-th error and its name.
C7_FinalErrorReported ==
    (Started /\ CountedRetries) =>
        \A i \in Ops :
            Failed(i) =>
                /\ invoked[i][1] = R
                /\ mode = "orchestrator" => Uninterrupted(i)
                /\ Ended => Reports(i)

\* C7 as amended: the same, the SagaException carrying the error and name
\* of that action in orchestrator mode, and in choreography mode when no
\* operation declared before it failed too.
C7_FinalErrorReportedOfFirstFailed ==
    (Started /\ CountedRetries) =>
        \A i \in Ops :
            Failed(i) =>
                /\ invoked[i][1] = R
                /\ mode = "orchestrator" => Uninterrupted(i)
                /\ Ended => outcome.kind = "SagaException"
                /\ (Ended /\ (mode = "orchestrator"
                                \/ \A j \in 1 .. i - 1 : ~Failed(j))) => Reports(i)

\* A choreography run with two attempts per action ended after the second
\* and third action raised twice each: the exception carries the second
\* action's second error.
C7_Witness ==
    /\ mode = "choreography" /\ pc = "raised" /\ N = 3 /\ CountedRetries /\ R = 2
    /\ Succeeded(1) /\ Failed(2) /\ Failed(3)
    /\ invoked[2][1] = 2
    /\ outcome.operation_error = UserError(2, 1, 2)

\* The argument kinds __check_operation has no function for.
NotCallable(arg) == arg.kind \in {"seq_nonfunc", "nonfunc"}
IsFunction(arg) == arg.kind \in {"func", "seq_func"}

\* The operation() calls the claim is about: no argument, three or more,
\* a first one that is not callable, or a function followed by a second one
\* that is not callable.
Undeclarable(args) ==
    \/ Len(args) = 0
    \/ Len(args) >= 3
    \/ Len(args) >= 1 /\ NotCallable(args[1])
    \/ Len(args) = 2 /\ IsFunction(args[1]) /\ NotCallable(args[2])

Eligible == {i \in Ops : HasCompensation(i) /\ Succeeded(i)}

\* C9: a failed run without eligible compensation raises a SagaException
\* whose compensation_success_result and compensation_errors are both None.
C9_NoCompensationBothNone ==
    (Started /\ pc = "raised" /\ Eligible = {}) =>
        /\ outcome.compensation_success_result = None
        /\ outcome.compensation_errors = None

\* The compensation of operation i was invoked and returned.
CompensationReturned(i) ==
    IF mode = "orchestrator"
      THEN \E x \in 1 .. Len(calls) :
              calls[x].op = i /\ calls[x].pos = 2 /\ calls[x].ok
      ELSE \E q \in 1 .. Len(compensation_threads) :
              /\ compensation_threads[q].function_index = i
              /\ compensation_threads[q].status = "returned"

\* C10: a failed run whose M >= 1 eligible compensations all succeeded
\* raises a SagaException whose compensation_errors is None and whose
\* compensation_success_result holds M entries, one per eligible
\* compensation.
C10_AllCompensationsSucceeded ==
    (Started /\ pc = "raised" /\ Eligible # {}
       /\ \A i \in Eligible : CompensationReturned(i)) =>
        /\ outcome.compensation_errors = None
        /\ ~outcome.compensation_success_result.isNone
        /\ Len(outcome.compensation_success_result.list) = Cardinality(Eligible)
        /\ \A i \in Eligible :
              EntriesOf(outcome.compensation_success_result.list, i, 2) = 1

\* The compensation of operation i was invoked and raised.
CompensationRaised(i) ==
    IF mode = "orchestrator"
      THEN \E x \in 1 .. Len(calls) :
              calls[x].op = i /\ calls[x].pos = 2 /\ ~calls[x].ok
      ELSE \E q \in 1 .. Len(compensation_threads) :
              /\ compensation_threads[q].function_index = i
              /\ compensation_threads[q].status = "raised"

\* How many invocations of compensations the run has made.
RECURSIVE CompensationsInvokedUpTo(_)
CompensationsInvokedUpTo(i) ==
    IF i = 0 THEN 0 ELSE invoked[i][2] + CompensationsInvokedUpTo(i - 1)

\* C11: in both modes no compensation is invoked twice, and when the run
\* raises every eligible compensation has been invoked exactly once, the
\* error of each one that raised is in compensation_errors, and the
\* compensation outputs and errors together are as many as the
\* compensations invoked.
C11_SweepCompletes ==
    Started =>
        /\ \A i \in Ops : invoked[i][2] <= 1
        /\ pc = "raised" =>
              /\ \A i \in Eligible : invoked[i][2] = 1
              /\ \A i \in Ops :
                    CompensationRaised(i) =>
                        \E x \in 1 .. Len(outcome.compensation_errors.list) :
                            outcome.compensation_errors.list[x] = Str(UserError(i, 2, 1))
              /\ Len(outcome.compensation_success_result.list)
                    + Len(outcome.compensation_errors.list) = CompensationsInvokedUpTo(N)

\* C12: a run that raised carries one SagaException, whose operation_error
\* and operation_name are those of one action that finally failed in the
\* run, and nothing happens after it was raised.
C12_Carried ==
    (Started /\ pc = "raised") =>
        /\ outcome.kind = "SagaException"
        /\ \E i \in Ops :
              /\ Failed(i)
              /\ outcome.operation_error = retry[i].error
              /\ outcome.operation_name = operations[i][1]
        /\ outcome.operation_error.pos # 2
        /\ outcome.operation_name.fn = "action"

C12_OneSagaException ==
    [](C12_Carried) /\ [][pc = "raised" => pc' = "raised" /\ outcome' = outcome]_vars

\* A run raised after a compensation had raised too: the exception still
\* carries the failed action's error.
C12_Witness ==
    /\ Started /\ pc = "raised" /\ N = 3
    /\ Failed(3) /\ CompensationRaised(1) /\ CompensationRaised(2)
    /\ outcome.operation_error = UserError(3, 1, retry[3].attempt)

\* C13: every saga that was constructed has a retry-attempts value of at
\* least 1 (a non-positive one having been refused), and every action whose
\* failure a run has recorded was invoked at least once.
C13_PositiveRetryAttempts ==
    pc \notin {"new", "ctor_raised"} =>
        /\ retry_attempts.v >= 1
        /\ Started => \A i \in Ops : Failed(i) => invoked[i][1] >= 1

\* Every action thread has ended.
ActionsEnded == \A i \in Ops : retry[i].status \in {"returned", "raised"}

\* C14: in choreography_execute, whenever a compensation has been submitted
\* or invoked, every action thread has ended, retries included.
C14_BarrierBeforeCompensation ==
    (mode = "choreography"
       /\ (\/ pc = "choreography_compensation"
           \/ compensation_threads # <<>>
           \/ \E i \in Ops : invoked[i][2] > 0)) => ActionsEnded

\* A choreography run of three operations invoked the first one's
\* compensation after the second action had used both its attempts and
\* failed.
C14_Witness ==
    /\ mode = "choreography" /\ N = 3
    /\ invoked[1][2] = 1
    /\ Failed(2) /\ retry[2].attempt = 2
    /\ Succeeded(3)

\* C15: in choreography_execute every declared action has been invoked at
\* least once when the run ends, and when the SagaException is raised every
\* action thread and every submitted compensation thread has ended.
C15_NoSiblingSkipped ==
    mode = "choreography" =>
        /\ Ended => \A i \in Ops : invoked[i][1] >= 1
        /\ pc = "raised" =>
              /\ ActionsEnded
              /\ \A q \in 1 .. Len(compensation_threads) :
                    compensation_threads[q].status \in {"returned", "raised"}

\* The outputs of the compensations below k that returned, from k-1
\* downwards.
RECURSIVE SuccessfulCompensationOutputs(_)
SuccessfulCompensationOutputs(k) ==
    IF k <= 1 THEN <<>>
    ELSE (IF HasCompensation(k - 1) /\ CompensationReturned(k - 1)
            THEN <<UserResult(k - 1, 2, 1)>> ELSE <<>>)
           \o SuccessfulCompensationOutputs(k - 1)

\* C16: the SagaException of a failed orchestrator run lists, as
\* compensation_success_result, the outputs of the compensations that
\* succeeded, the one of the highest index first (None if there is none).
C16_OutputsInReverseOrder ==
    (mode = "orchestrator" /\ pc = "raised") =>
        outcome.compensation_success_result =
            OrNone(SuccessfulCompensationOutputs(operation_index))

\* C17: a run requested on a saga without operations does not start: the
\* call raises the SagaException of the availability check, nothing is
\* invoked and the accumulator stays as it was; and whenever that exception
\* was raised, no operation is declared and nothing has been invoked.
C17_Refused ==
    raised = Unavailable =>
        /\ operations = <<>> /\ pc = "declare" /\ mode = ""
        /\ saga_results = <<>> /\ invoked = <<>> /\ calls = <<>>
        /\ outcome = NoOutcome

C17_EmptySagaDoesNotRun ==
    [](C17_Refused)
      /\ [][(pc = "declare" /\ operations = <<>> /\ operations' = <<>>
              /\ last_call' = NoCall) =>
                /\ raised' = Unavailable
                /\ pc' = "declare" /\ mode' = ""
                /\ saga_results' = saga_results
                /\ invoked' = invoked /\ calls' = calls]_vars

\* A run was requested before any operation was declared.
C17_Witness ==
    raised = Unavailable /\ operations = <<>> /\ saga_results = <<>>

\* The operations that finally failed.
FailedOps == {i \in Ops : Failed(i)}

\* C18: when two or more actions failed in a choreography run, the
\* SagaException carries the error and the name of the failed operation
\* with the lowest declaration index.
C18_LowestFailedReported ==
    (mode = "choreography" /\ pc = "raised" /\ Cardinality(FailedOps) >= 2) =>
        \E i \in FailedOps :
            /\ \A j \in FailedOps : i <= j
            /\ outcome.operation_error = retry[i].error
            /\ outcome.operation_name = operations[i][1]
            /\ errors[1].function_index = i

\* A choreography run with two attempts per action in which the second and
\* the third action failed reports the second.
C18_Witness ==
    /\ mode = "choreography" /\ pc = "raised" /\ N = 3
    /\ FailedOps = {2, 3}
    /\ outcome.operation_name = ActionName(2)
    /\ outcome.operation_error = UserError(2, 1, 2)

\* s is a prefix of t.
IsPrefix(s, t) == Len(s) <= Len(t) /\ s = SubSeq(t, 1, Len(s))

\* C19: the accumulator holds one entry for every action that succeeded
\* through the retry executor, its successful result, and nothing else (no
\* failed attempt, no compensation); after an orchestrator run that failed
\* at index k it is the outputs of the actions below k in declaration
\* order; and every step leaves the old accumulator as a prefix of the new.
C19_Accumulated ==
    /\ ~Started => saga_results = <<>>
    /\ Started =>
          /\ Len(saga_results) = Cardinality({i \in Ops : Succeeded(i)})
          /\ \A i \in Ops :
                Succeeded(i) =>
                    \E x \in 1 .. Len(saga_results) :
                        saga_results[x] = UserResult(i, 1, retry[i].attempt)
          /\ (mode = "orchestrator" /\ pc \in {"orchestrator_compensation", "raised"}) =>
                saga_results = [i \in 1 .. operation_index - 1 |->
                                  UserResult(i, 1, retry[i].attempt)]

C19_AccumulatorOnlyGrows ==
    [](C19_Accumulated) /\ [][IsPrefix(saga_results, saga_results')]_vars

\* An orchestrator run with two attempts per action failed at the third
\* operation after the first two had succeeded, the second at its second
\* attempt, and after both compensations had run.
C19_Witness ==
    /\ mode = "orchestrator" /\ pc = "raised" /\ operation_index = 3
    /\ retry[2].attempt = 2
    /\ invoked[1][2] = 1 /\ invoked[2][2] = 1
    /\ saga_results = <<UserResult(1, 1, 1), UserResult(2, 1, 2)>>

\* The two ways a run ends exclude each other: it returned the outputs of
\* all N actions and no compensation was invoked, or it raised the
\* SagaException; before that it has no outcome.
C20_OneOutcome ==
    Started =>
        /\ pc = "returned" <=> outcome.kind = "return"
        /\ pc = "raised" <=> outcome.kind = "SagaException"
        /\ ~Ended <=> outcome = NoOutcome
        /\ pc = "returned" =>
              /\ Len(outcome.value) = N
              /\ \A i \in Ops : invoked[i][2] = 0
              /\ \A x \in 1 .. Len(calls) : calls[x].from = "retry"
              /\ compensation_success_result = <<>> /\ compensation_exceptions = <<>>

\* C20: every invocation returning or raising, a started run of either
\* mode eventually ends, in exactly one of the two ways, and takes no step
\* after it ended.
C20_RunTerminates ==
    /\ Started ~> Ended
    /\ [](C20_OneOutcome)
    /\ [][~Ended]_vars

\* An orchestrator run of three operations returned after retries.
C20_Witness ==
    /\ mode = "orchestrator" /\ pc = "returned" /\ N = 3
    /\ retry[1].attempt = 2 /\ retry[3].attempt = 2
    /\ outcome.kind = "return"

====
